---- MODULE Spec2Model ----
(***************************************************************************)
(* Model of the Mark-Shop storefront (src/app.py): a Flask application     *)
(* over an SQLite database accessed through SQLAlchemy.                    *)
(*                                                                         *)
(* State: the five tables (category, product, review, order, order_item),  *)
(* the browser session, the add_category requests that have passed their   *)
(* existence check and not yet committed, and the last request handled     *)
(* with its response.  One action per route handler.                       *)
(*                                                                         *)
(* Columns that no handler reads and no constraint restricts (created_at,  *)
(* Review.comment) are not represented.  SQLite does not enforce FOREIGN   *)
(* KEY clauses unless PRAGMA foreign_keys is switched on, and the program  *)
(* never switches it on; NOT NULL and UNIQUE are always enforced.          *)
(***************************************************************************)
EXTENDS Integers, Sequences, FiniteSets, TLC

VARIABLES db, session, inflight, request, response

vars == <<db, session, inflight, request, response>>

-----------------------------------------------------------------------------
(* Bounds of the exploration. *)

MaxProductId == 2
MaxCategoryId == 2
MaxReviewId == 2
MaxOrderId == 2
NumWorkers == 2

-----------------------------------------------------------------------------
(* Python values.  None is a value of its own in Python; here it is one    *)
(* reserved value per column type, outside every input set.                *)

NoneInt == -(2^20)
NoneStr == "<None>"

Workers == 1..NumWorkers

RECURSIVE SetToSeq(_)
SetToSeq(S) ==
    IF S = {} THEN <<>>
    ELSE LET x == CHOOSE y \in S : \A z \in S : y.id <= z.id
         IN  <<x>> \o SetToSeq(S \ {x})

RECURSIVE SeqSum(_)
SeqSum(s) == IF s = <<>> THEN 0 ELSE Head(s) + SeqSum(Tail(s))

\* dict.get(key, default)
Get(d, k, default) == IF k \in DOMAIN d THEN d[k] ELSE default

\* not x, for a form field x: None or the empty string
Falsy(s) == s = NoneStr \/ s = ""

-----------------------------------------------------------------------------
(* The tables. *)

Tables == {"category", "product", "review", "order", "order_item"}

EmptyDb == [t \in Tables |-> {}]

\* nullable=False columns of each table (primary keys are assigned by SQLite).
NotNull(t) ==
    CASE t = "category"   -> {"name"}
      [] t = "product"    -> {"name", "price", "image_url"}
      [] t = "review"     -> {"product_id", "customer_name", "rating"}
      [] t = "order"      -> {"customer_name", "customer_email", "customer_phone",
                              "customer_address", "payment_method", "total_price"}
      [] t = "order_item" -> {"order_id", "product_id", "quantity", "price"}

StringColumns == {"name", "image_url", "description", "customer_name",
                  "customer_email", "customer_phone", "customer_address",
                  "payment_method", "status"}

IsNone(c, v) == IF c \in StringColumns THEN v = NoneStr ELSE v = NoneInt

\* INTEGER PRIMARY KEY without AUTOINCREMENT: the new rowid is one more than
\* the largest rowid in the table.
NextIdAfter(rows, k) ==
    (IF rows = {} THEN 0
     ELSE CHOOSE m \in {r.id : r \in rows} : \A r \in rows : r.id <= m) + k

NextId(rows) == NextIdAfter(rows, 1)

\* Model.query.get(id)
QueryGet(rows, id) == {r \in rows : r.id = id}

-----------------------------------------------------------------------------
(* One flush: the statements of the unit of work run in order inside one   *)
(* transaction.  A statement that breaks a NOT NULL or UNIQUE constraint   *)
(* raises IntegrityError; the handlers answer it with session.rollback().  *)

Insert(t, row) == [kind |-> "insert", table |-> t, row |-> row, old |-> row]
Delete(t, row) == [kind |-> "delete", table |-> t, row |-> row, old |-> row]
Update(t, old, row) == [kind |-> "update", table |-> t, row |-> row, old |-> old]

NullViolation(s) ==
    /\ s.kind # "delete"
    /\ \E c \in NotNull(s.table) : IsNone(c, s.row[c])

UniqueNotEnforced(d, s) == FALSE

\* Category.name: unique=True
UniqueViolation(d, s) ==
    /\ s.kind # "delete"
    /\ s.table = "category"
    /\ \E r \in d.category \ {s.old} : r.name = s.row.name

Violates(d, s) == NullViolation(s) \/ UniqueViolation(d, s)

Execute(d, s) ==
    CASE s.kind = "insert" -> [d EXCEPT ![s.table] = @ \cup {s.row}]
      [] s.kind = "delete" -> [d EXCEPT ![s.table] = @ \ {s.row}]
      [] s.kind = "update" -> [d EXCEPT ![s.table] = (@ \ {s.old}) \cup {s.row}]

RECURSIVE Run(_, _)
Run(d, stmts) ==
    IF stmts = <<>> THEN [ok |-> TRUE, db |-> d]
    ELSE IF Violates(d, Head(stmts)) THEN [ok |-> FALSE, db |-> d]
    ELSE Run(Execute(d, Head(stmts)), Tail(stmts))

\* What a failing transaction would leave behind without the rollback.
CommitNoRollback(d, stmts) == Run(d, stmts)

\* db.session.commit() inside try, db.session.rollback() in the except arm.
Commit(d, stmts) ==
    LET r == Run(d, stmts)
    IN  IF r.ok THEN r ELSE [ok |-> FALSE, db |-> d]

-----------------------------------------------------------------------------
(* Session. *)

EmptySession == [k \in {} |-> TRUE]

\* is_admin_logged_in(): session.get('admin_logged_in', False)
is_admin_logged_in(s) == Get(s, "admin_logged_in", FALSE)

Idle == [name |-> NoneStr, description |-> NoneStr]

NoneInFlight == \A w \in Workers : inflight[w] = Idle

-----------------------------------------------------------------------------
(* POST /login and GET /logout *)

CredentialsAnyPassword(username, password) == username = "admin"

CredentialsOk(username, password) == username = "admin" /\ password = "1234"

login(username, password) ==
    /\ request' = [op |-> "login", username |-> username, password |-> password]
    /\ IF CredentialsOk(username, password)
       THEN /\ session' = [k \in DOMAIN session \cup {"admin_logged_in", "admin_username"} |->
                              CASE k = "admin_logged_in" -> TRUE
                                [] k = "admin_username" -> username
                                [] OTHER -> session[k]]
            /\ response' = [status |-> "redirect", to |-> "dashboard"]
       ELSE /\ session' = session
            /\ response' = [status |-> "render", to |-> "login.html:error"]
    /\ UNCHANGED <<db, inflight>>

logout ==
    /\ request' = [op |-> "logout"]
    /\ session' = EmptySession
    /\ response' = [status |-> "redirect", to |-> "login"]
    /\ UNCHANGED <<db, inflight>>

\* GET /admin/dashboard
dashboard ==
    /\ request' = [op |-> "dashboard"]
    /\ response' = IF ~is_admin_logged_in(session)
                   THEN [status |-> "redirect", to |-> "login"]
                   ELSE [status |-> "render", to |-> "admin.html"]
    /\ UNCHANGED <<db, session, inflight>>

-----------------------------------------------------------------------------
(* POST /checkout *)

CustomerFields == {"customer_name", "customer_email", "customer_phone",
                   "customer_address", "payment_method"}

\* json.loads(cart_data) if cart_data else []
CartParses(cart_data) == cart_data.kind # "malformed"

CartItems(cart_data) == IF cart_data.kind = "json" THEN cart_data.value ELSE <<>>

ItemKeysOk(item) == {"id", "quantity", "price"} \subseteq DOMAIN item

CartTotalIgnoringQuantity(cart_items) ==
    SeqSum([i \in 1..Len(cart_items) |-> cart_items[i]["price"]])

\* sum(item['price'] * item['quantity'] for item in cart_items)
CartTotal(cart_items) ==
    SeqSum([i \in 1..Len(cart_items) |->
               cart_items[i]["price"] * cart_items[i]["quantity"]])

\* An order created already confirmed.
NewOrderConfirmed(d, form, cart_items) ==
    [id |-> NextId(d.order),
     customer_name |-> Get(form, "customer_name", NoneStr),
     customer_email |-> Get(form, "customer_email", NoneStr),
     customer_phone |-> Get(form, "customer_phone", NoneStr),
     customer_address |-> Get(form, "customer_address", NoneStr),
     payment_method |-> Get(form, "payment_method", NoneStr),
     total_price |-> CartTotal(cart_items),
     status |-> "confirmed"]

NewOrder(d, form, cart_items) ==
    [id |-> NextId(d.order),
     customer_name |-> Get(form, "customer_name", NoneStr),
     customer_email |-> Get(form, "customer_email", NoneStr),
     customer_phone |-> Get(form, "customer_phone", NoneStr),
     customer_address |-> Get(form, "customer_address", NoneStr),
     payment_method |-> Get(form, "payment_method", NoneStr),
     total_price |-> CartTotal(cart_items),
     status |-> "pending"]

NewOrderItems(d, order, cart_items) ==
    [i \in 1..Len(cart_items) |->
        [id |-> NextIdAfter(d.order_item, i),
         order_id |-> order.id,
         product_id |-> cart_items[i]["id"],
         quantity |-> cart_items[i]["quantity"],
         price |-> cart_items[i]["price"]]]

EmptyCartAccepted(cart_items) == FALSE

\* if not cart_items
CartIsEmpty(cart_items) == cart_items = <<>>

checkout(form, cart_data) ==
    /\ request' = [op |-> "checkout", form |-> form, cart_data |-> cart_data]
    /\ UNCHANGED <<session, inflight>>
    /\ IF ~CartParses(cart_data)
       THEN /\ db' = db
            /\ response' = [status |-> "render", to |-> "checkout.html:exception"]
       ELSE LET cart_items == CartItems(cart_data) IN
            IF CartIsEmpty(cart_items)
            THEN /\ db' = db
                 /\ response' = [status |-> "render", to |-> "checkout.html:empty"]
            ELSE IF \E i \in 1..Len(cart_items) : ~ItemKeysOk(cart_items[i])
            THEN /\ db' = db
                 /\ response' = [status |-> "render", to |-> "checkout.html:exception"]
            ELSE LET order == NewOrder(db, form, cart_items)
                     items == NewOrderItems(db, order, cart_items)
                     r == Commit(db, <<Insert("order", order)>> \o
                                     [i \in 1..Len(items) |-> Insert("order_item", items[i])])
                 IN  /\ order.id <= MaxOrderId
                     /\ db' = r.db
                     /\ response' = IF r.ok
                                    THEN [status |-> "redirect", to |-> "checkout_success"]
                                    ELSE [status |-> "render", to |-> "checkout.html:exception"]

-----------------------------------------------------------------------------
(* JSON product API: POST /api/products, PUT and DELETE /api/products/<id> *)

create_product(data) ==
    LET row == [id |-> NextId(db.product),
                name |-> Get(data, "name", NoneStr),
                price |-> Get(data, "price", NoneInt),
                image_url |-> Get(data, "image_url", NoneStr),
                discount |-> 0,
                category_id |-> Get(data, "category_id", NoneInt),
                description |-> Get(data, "description", "")]
        r == Commit(db, <<Insert("product", row)>>)
    IN  /\ row.id <= MaxProductId
        /\ request' = [op |-> "create_product", data |-> data]
        /\ db' = r.db
        /\ response' = IF r.ok THEN [status |-> "json", to |-> "201"]
                               ELSE [status |-> "json", to |-> "400"]
        /\ UNCHANGED <<session, inflight>>

UpdatableFields == {"name", "price", "image_url", "category_id", "description"}

ApplyPatchResettingAbsent(p, data) ==
    [c \in DOMAIN p |->
        IF c \in UpdatableFields
        THEN Get(data, c, IF c \in StringColumns THEN "" ELSE NoneInt)
        ELSE p[c]]

\* if 'name' in data: product.name = data['name'] ... (one test per field)
ApplyPatch(p, data) ==
    [c \in DOMAIN p |->
        IF c \in UpdatableFields /\ c \in DOMAIN data THEN data[c] ELSE p[c]]

update_product(product_id, data) ==
    /\ request' = [op |-> "update_product", product_id |-> product_id, data |-> data]
    /\ UNCHANGED <<session, inflight>>
    /\ IF QueryGet(db.product, product_id) = {}
       THEN /\ db' = db
            /\ response' = [status |-> "json", to |-> "404"]
       ELSE LET p == CHOOSE x \in QueryGet(db.product, product_id) : TRUE
                new == ApplyPatch(p, data)
                r == Commit(db, IF new = p THEN <<>> ELSE <<Update("product", p, new)>>)
            IN  /\ db' = r.db
                /\ response' = IF r.ok THEN [status |-> "json", to |-> "200"]
                                       ELSE [status |-> "json", to |-> "400"]

\* Product.reviews: cascade='all, delete-orphan'
ReviewsOf(d, p) == {r \in d.review : r.product_id = p.id}

\* Product.order_items, the backref of OrderItem.product: no delete cascade
OrderItemsOf(d, p) == {i \in d.order_item : i.product_id = p.id}

DeleteProductKeepingReviews(d, p) ==
    [i \in 1..Cardinality(OrderItemsOf(d, p)) |->
        LET item == SetToSeq(OrderItemsOf(d, p))[i]
        IN  Update("order_item", item, [item EXCEPT !.product_id = NoneInt])]
    \o <<Delete("product", p)>>

\* db.session.delete(product): the unit of work sets the foreign key of the
\* order items of the product to NULL (a relationship without delete
\* cascade), deletes its reviews, then deletes the product row.
DeleteProduct(d, p) ==
    [i \in 1..Cardinality(OrderItemsOf(d, p)) |->
        LET item == SetToSeq(OrderItemsOf(d, p))[i]
        IN  Update("order_item", item, [item EXCEPT !.product_id = NoneInt])]
    \o [i \in 1..Cardinality(ReviewsOf(d, p)) |->
        Delete("review", SetToSeq(ReviewsOf(d, p))[i])]
    \o <<Delete("product", p)>>

delete_product(product_id) ==
    /\ request' = [op |-> "delete_product", product_id |-> product_id]
    /\ UNCHANGED <<session, inflight>>
    /\ IF QueryGet(db.product, product_id) = {}
       THEN /\ db' = db
            /\ response' = [status |-> "json", to |-> "404"]
       ELSE LET p == CHOOSE x \in QueryGet(db.product, product_id) : TRUE
                r == Commit(db, DeleteProduct(db, p))
            IN  /\ db' = r.db
                /\ response' = IF r.ok THEN [status |-> "json", to |-> "200"]
                                       ELSE [status |-> "json", to |-> "400"]

-----------------------------------------------------------------------------
(* POST /api/reviews *)

\* A JSON number is kept in tenths (55 is 5.5); int() truncates toward zero
\* and raises ValueError on text that is no integer literal.
IntRaises(v) == v.kind # "number"

PyInt(v) == IF v.tenths >= 0 THEN v.tenths \div 10 ELSE -((-v.tenths) \div 10)

\* the complement of: if rating < 1 or rating > 5
RatingOk(rating) == ~(rating < 1 \/ rating > 5)

\* product = Product.query.get(product_id); if not product
ProductFound(d, product_id) == QueryGet(d.product, product_id) # {}

add_review(data) ==
    LET v == Get(data, "rating", [kind |-> "number", tenths |-> 0]) IN
    /\ request' = [op |-> "add_review", data |-> data]
    /\ UNCHANGED <<session, inflight>>
    /\ IF IntRaises(v)
       THEN /\ db' = db
            /\ response' = [status |-> "json", to |-> "400"]
       ELSE IF ~RatingOk(PyInt(v))
       THEN /\ db' = db
            /\ response' = [status |-> "json", to |-> "400"]
       ELSE IF ~ProductFound(db, Get(data, "product_id", NoneInt))
       THEN /\ db' = db
            /\ response' = [status |-> "json", to |-> "404"]
       ELSE LET row == [id |-> NextId(db.review),
                        product_id |-> Get(data, "product_id", NoneInt),
                        customer_name |-> Get(data, "customer_name", NoneStr),
                        rating |-> PyInt(v)]
                r == Commit(db, <<Insert("review", row)>>)
            IN  /\ row.id <= MaxReviewId
                /\ db' = r.db
                /\ response' = IF r.ok THEN [status |-> "json", to |-> "201"]
                                       ELSE [status |-> "json", to |-> "400"]

-----------------------------------------------------------------------------
(* Category management: GET /admin/categories, POST /admin/categories/add, *)
(* POST /admin/categories/delete/<id>                                      *)

manage_categories ==
    /\ request' = [op |-> "manage_categories"]
    /\ response' = IF ~is_admin_logged_in(session)
                   THEN [status |-> "redirect", to |-> "login"]
                   ELSE [status |-> "render", to |-> "admin-categories.html"]
    /\ UNCHANGED <<db, session, inflight>>

\* Category.query.filter_by(name=name).first()
CategoryByName(d, name) == {c \in d.category : c.name = name}

\* add_category up to its existence check.  Flask's development server
\* handles each request on a thread of its own, so another request can run
\* between the check and the commit.
add_category_check(w, form) ==
    LET name == Get(form, "name", NoneStr)
        description == Get(form, "description", "")
    IN
    /\ inflight[w] = Idle
    /\ request' = [op |-> "add_category", worker |-> w, name |-> name]
    /\ UNCHANGED <<db, session>>
    /\ IF ~is_admin_logged_in(session)
       THEN /\ response' = [status |-> "redirect", to |-> "login"]
            /\ inflight' = inflight
       ELSE IF Falsy(name)
       THEN /\ response' = [status |-> "render", to |-> "admin-categories.html:name"]
            /\ inflight' = inflight
       ELSE IF CategoryByName(db, name) # {}
       THEN /\ response' = [status |-> "render", to |-> "admin-categories.html:exists"]
            /\ inflight' = inflight
       ELSE /\ response' = [status |-> "none", to |-> "none"]
            /\ inflight' = [inflight EXCEPT ![w] = [name |-> name, description |-> description]]

\* add_category from db.session.add(new_category) to its return.
add_category_commit(w) ==
    LET row == [id |-> NextId(db.category),
                name |-> inflight[w].name,
                description |-> inflight[w].description]
        r == Commit(db, <<Insert("category", row)>>)
    IN  /\ inflight[w] # Idle
        /\ row.id <= MaxCategoryId
        /\ request' = [op |-> "add_category", worker |-> w, name |-> inflight[w].name]
        /\ db' = r.db
        /\ response' = IF r.ok
                       THEN [status |-> "redirect", to |-> "manage_categories"]
                       ELSE [status |-> "render", to |-> "admin-categories.html:exception"]
        /\ inflight' = [inflight EXCEPT ![w] = Idle]
        /\ UNCHANGED session

\* Category.products: cascade='all, delete-orphan'
ProductsOf(d, c) == {p \in d.product : p.category_id = c.id}

RECURSIVE DeleteProducts(_, _)
DeleteProducts(d, ps) ==
    IF ps = <<>> THEN <<>>
    ELSE DeleteProduct(d, Head(ps)) \o DeleteProducts(d, Tail(ps))

\* db.session.delete(category): the delete cascades to the products of the
\* category, and from each of them as in DeleteProduct.
DeleteCategory(d, c) ==
    DeleteProducts(d, SetToSeq(ProductsOf(d, c))) \o <<Delete("category", c)>>

delete_category(category_id) ==
    /\ request' = [op |-> "delete_category", category_id |-> category_id]
    /\ UNCHANGED <<session, inflight>>
    /\ IF ~is_admin_logged_in(session)
       THEN /\ db' = db
            /\ response' = [status |-> "redirect", to |-> "login"]
       ELSE /\ response' = [status |-> "redirect", to |-> "manage_categories"]
            /\ IF QueryGet(db.category, category_id) = {}
               THEN db' = db
               ELSE LET c == CHOOSE x \in QueryGet(db.category, category_id) : TRUE
                    IN  db' = Commit(db, DeleteCategory(db, c)).db

-----------------------------------------------------------------------------
(* Product management: POST /admin/add-product,                            *)
(* POST /admin/delete-product/<id>                                         *)

\* Form fields arrive as text.  float() and the INTEGER column affinity of
\* SQLite turn a numeral into its number; float() raises ValueError on
\* anything else.
Numeral == [s \in {"10", "-5", "1", "2"} |->
               CASE s = "10" -> 10 [] s = "-5" -> -5 [] s = "1" -> 1 [] s = "2" -> 2]

IsNumeral(s) == s \in DOMAIN Numeral

add_product_admin(form) ==
    LET name == Get(form, "name", NoneStr)
        price == Get(form, "price", NoneStr)
        image_url == Get(form, "image_url", NoneStr)
        category_id == Get(form, "category_id", NoneStr)
        description == Get(form, "description", "")
    IN
    /\ request' = [op |-> "add_product_admin", form |-> form]
    /\ UNCHANGED <<session, inflight>>
    /\ IF ~is_admin_logged_in(session)
       THEN /\ db' = db
            /\ response' = [status |-> "redirect", to |-> "login"]
       ELSE IF Falsy(name) \/ Falsy(price) \/ Falsy(image_url)
       THEN /\ db' = db
            /\ response' = [status |-> "render", to |-> "admin-add-product.html:missing"]
       ELSE IF ~IsNumeral(price)
       THEN /\ db' = db
            /\ response' = [status |-> "render", to |-> "admin-add-product.html:price"]
       ELSE LET row == [id |-> NextId(db.product),
                        name |-> name,
                        price |-> Numeral[price],
                        image_url |-> image_url,
                        discount |-> 0,
                        category_id |-> IF Falsy(category_id) THEN NoneInt
                                        ELSE Numeral[category_id],
                        description |-> description]
                r == Commit(db, <<Insert("product", row)>>)
            IN  /\ row.id <= MaxProductId
                /\ db' = r.db
                /\ response' = IF r.ok
                               THEN [status |-> "redirect", to |-> "dashboard"]
                               ELSE [status |-> "render", to |-> "admin-add-product.html:exception"]

\* A delete that answers a missing id with an error page.
DeleteProductAdminFailingOnMissing(product_id) ==
    /\ request' = [op |-> "delete_product_admin", product_id |-> product_id]
    /\ UNCHANGED <<session, inflight>>
    /\ IF ~is_admin_logged_in(session)
       THEN /\ db' = db
            /\ response' = [status |-> "redirect", to |-> "login"]
       ELSE IF QueryGet(db.product, product_id) = {}
       THEN /\ db' = db
            /\ response' = [status |-> "error", to |-> "404"]
       ELSE LET p == CHOOSE x \in QueryGet(db.product, product_id) : TRUE
            IN  /\ db' = Commit(db, DeleteProduct(db, p)).db
                /\ response' = [status |-> "redirect", to |-> "dashboard"]

delete_product_admin(product_id) ==
    /\ request' = [op |-> "delete_product_admin", product_id |-> product_id]
    /\ UNCHANGED <<session, inflight>>
    /\ IF ~is_admin_logged_in(session)
       THEN /\ db' = db
            /\ response' = [status |-> "redirect", to |-> "login"]
       ELSE /\ response' = [status |-> "redirect", to |-> "dashboard"]
            /\ IF QueryGet(db.product, product_id) = {}
               THEN db' = db
               ELSE LET p == CHOOSE x \in QueryGet(db.product, product_id) : TRUE
                    IN  db' = Commit(db, DeleteProduct(db, p)).db

-----------------------------------------------------------------------------
(* seed_sample_data(), run by init_db() each time the program starts.  The *)
(* lists of the source (3 categories, 8 products) are cut to their first   *)
(* entries; names are transliterated.                                      *)

categories_data == <<[name |-> "Electronics", description |-> "electronics"]>>

sample_products ==
    <<[name |-> "Headphones", price |-> 2490, image_url |-> "photo-1505740420928",
       discount |-> 15, category |-> "Electronics"]>>

\* .first(): SQLite scans the table in rowid order
First(rows) == CHOOSE x \in rows : \A y \in rows : x.id <= y.id

RECURSIVE SeedCategories(_, _)
SeedCategories(d, list) ==
    IF list = <<>> THEN d
    ELSE LET cat == Head(list)
             row == [id |-> NextId(d.category), name |-> cat.name,
                     description |-> cat.description]
         IN  SeedCategories(IF CategoryByName(d, cat.name) = {}
                            THEN Execute(d, Insert("category", row))
                            ELSE d,
                            Tail(list))

RECURSIVE SeedProducts(_, _)
SeedProducts(d, list) ==
    IF list = <<>> THEN d
    ELSE LET item == Head(list)
             category_id == IF CategoryByName(d, item.category) = {} THEN NoneInt
                            ELSE First(CategoryByName(d, item.category)).id
             same == {p \in d.product : p.name = item.name}
             row == [id |-> NextId(d.product), name |-> item.name, price |-> item.price,
                     image_url |-> item.image_url, discount |-> item.discount,
                     category_id |-> category_id, description |-> ""]
         IN  SeedProducts(IF same = {}
                          THEN Execute(d, Insert("product", row))
                          ELSE LET existing == First(same)
                               IN  Execute(d, Update("product", existing,
                                       [existing EXCEPT !.image_url = item.image_url,
                                                        !.price = item.price,
                                                        !.category_id = category_id])),
                          Tail(list))

seed_sample_data ==
    LET seeded == SeedProducts(SeedCategories(db, categories_data), sample_products) IN
    /\ NoneInFlight
    /\ \A c \in seeded.category : c.id <= MaxCategoryId
    /\ \A p \in seeded.product : p.id <= MaxProductId
    /\ db' = seeded
    /\ request' = [op |-> "seed_sample_data"]
    /\ response' = [status |-> "none", to |-> "none"]
    /\ UNCHANGED <<session, inflight>>

-----------------------------------------------------------------------------
(* The requests explored. *)

Without(d, k) == [x \in DOMAIN d \ {k} |-> d[x]]

CompleteForm == [f \in CustomerFields |-> IF f = "payment_method" THEN "cod" ELSE "x"]

CheckoutForms == {CompleteForm, Without(CompleteForm, "customer_email")}

TwoHeadphones == [id |-> 1, quantity |-> 2, price |-> 5]
NoLamps == [id |-> 2, quantity |-> 0, price |-> 10]

\* carts that commit
GoodCarts == {<<TwoHeadphones>>, <<TwoHeadphones, NoLamps>>}

\* carts that raise: an entry without id, an entry without price, an entry
\* whose id is null (refused by the database after the order row and the
\* first item row were flushed)
BadCarts == {<<Without(TwoHeadphones, "id")>>,
             <<TwoHeadphones, Without(NoLamps, "price")>>,
             <<TwoHeadphones, [NoLamps EXCEPT !["id"] = NoneInt]>>}

Carts == {<<>>} \cup GoodCarts \cup BadCarts

CartData == {[kind |-> "absent", value |-> <<>>], [kind |-> "malformed", value |-> <<>>]}
            \cup {[kind |-> "json", value |-> c] : c \in Carts}

ProductIds == 1..(MaxProductId + 1)
CategoryIds == 1..(MaxCategoryId + 1)

PlainLamp == [name |-> "Lamp", price |-> 10, image_url |-> "u1"]

CategoryLamp == [name |-> "Lamp", price |-> -5, image_url |-> "u1",
                 category_id |-> 1, description |-> "d1"]

ProductBodies == {PlainLamp, CategoryLamp, Without(PlainLamp, "name")}

Patches ==
    {[price |-> 20],
     [name |-> "Desk", image_url |-> "u2", category_id |-> 2, description |-> "d2"],
     [name |-> NoneStr, price |-> 20],
     Without([price |-> 20], "price")}

Ratings == {[kind |-> "number", tenths |-> t] : t \in {9, 10, 55, 60}}
           \cup {[kind |-> "text", tenths |-> 0]}

FiveStars == [product_id |-> 1, customer_name |-> "Ann",
              rating |-> [kind |-> "number", tenths |-> 50]]

ReviewBodies ==
    {[product_id |-> p, customer_name |-> "Ann", rating |-> r] : p \in {1, 2}, r \in Ratings}
    \cup {FiveStars, Without(FiveStars, "customer_name"), Without(FiveStars, "rating")}

ProductForms ==
    {[name |-> "Lamp", price |-> "10", image_url |-> "u1", category_id |-> "1"],
     [name |-> "Lamp", price |-> "-5", image_url |-> "u1", category_id |-> ""],
     [name |-> "Lamp", price |-> "abc", image_url |-> "u1"],
     [price |-> "10", image_url |-> "u1"]}

CategoryForms == {[name |-> "Electronics"], [name |-> "Books"],
                  Without([name |-> "Books"], "name")}

Usernames == {"admin", "guest"}
Passwords == {"1234", "0000"}

-----------------------------------------------------------------------------

Init ==
    /\ db = EmptyDb
    /\ session = EmptySession
    /\ inflight = [w \in Workers |-> Idle]
    /\ request = [op |-> "none"]
    /\ response = [status |-> "none", to |-> "none"]

Admin == login("admin", "1234")

OneItemCart == [kind |-> "json", value |-> <<TwoHeadphones>>]

(* Ordering: every request that writes order or order_item rows, or the    *)
(* rows they refer to.                                                     *)
NextCheckout ==
    \/ seed_sample_data
    \/ Admin
    \/ \E f \in CheckoutForms, c \in CartData : checkout(f, c)
    \/ \E id \in ProductIds : update_product(id, [price |-> 20])
    \/ \E id \in ProductIds : delete_product(id)
    \/ \E id \in ProductIds : delete_product_admin(id)
    \/ \E id \in CategoryIds : delete_category(id)

SpecCheckout == Init /\ [][NextCheckout]_vars

(* Reviews and the deletes that cascade to them. *)
NextReviews ==
    \/ seed_sample_data
    \/ Admin
    \/ create_product(CategoryLamp)
    \/ \E data \in ReviewBodies : add_review(data)
    \/ checkout(CompleteForm, OneItemCart)
    \/ \E id \in ProductIds : delete_product(id)
    \/ \E id \in ProductIds : delete_product_admin(id)
    \/ \E id \in CategoryIds : delete_category(id)

SpecReviews == Init /\ [][NextReviews]_vars

(* The session and the requests of the back office. *)
NextAdmin ==
    \/ seed_sample_data
    \/ \E u \in Usernames, pw \in Passwords : login(u, pw)
    \/ logout
    \/ dashboard
    \/ manage_categories
    \/ \E f \in CategoryForms : add_category_check(1, f)
    \/ add_category_commit(1)
    \/ \E id \in CategoryIds : delete_category(id)
    \/ \E f \in ProductForms : add_product_admin(f)
    \/ \E id \in ProductIds : delete_product_admin(id)
    \/ \E id \in ProductIds : update_product(id, [price |-> 20])
    \/ \E id \in ProductIds : delete_product(id)

SpecAdmin == Init /\ [][NextAdmin]_vars

(* Categories, with add_category requests running side by side. *)
NextCategories ==
    \/ seed_sample_data
    \/ Admin
    \/ logout
    \/ \E w \in Workers, f \in CategoryForms : add_category_check(w, f)
    \/ \E w \in Workers : add_category_commit(w)
    \/ \E id \in CategoryIds : delete_category(id)

SpecCategories == Init /\ [][NextCategories]_vars

(* The product API, with reviews and orders present. *)
NextProducts ==
    \/ seed_sample_data
    \/ \E data \in {PlainLamp, Without(PlainLamp, "name")} : create_product(data)
    \/ \E id \in ProductIds, data \in Patches : update_product(id, data)
    \/ add_review(FiveStars)
    \/ checkout(CompleteForm, OneItemCart)

SpecProducts == Init /\ [][NextProducts]_vars

(* Every request.  The specifications above restrict it to the requests  *)
(* that touch what a group of properties is about.                         *)
Next ==
    \/ seed_sample_data
    \/ \E u \in Usernames, pw \in Passwords : login(u, pw)
    \/ logout
    \/ dashboard
    \/ manage_categories
    \/ \E f \in CheckoutForms, c \in CartData : checkout(f, c)
    \/ \E data \in ProductBodies : create_product(data)
    \/ \E id \in ProductIds, data \in Patches : update_product(id, data)
    \/ \E id \in ProductIds : delete_product(id)
    \/ \E data \in ReviewBodies : add_review(data)
    \/ \E w \in Workers, f \in CategoryForms : add_category_check(w, f)
    \/ \E w \in Workers : add_category_commit(w)
    \/ \E id \in CategoryIds : delete_category(id)
    \/ \E f \in ProductForms : add_product_admin(f)
    \/ \E id \in ProductIds : delete_product_admin(id)

Spec == Init /\ [][Next]_vars


-----------------------------------------------------------------------------
(* Properties. *)

LoggedIn == is_admin_logged_in(session)

ItemsOfOrder(d, o) == {i \in d.order_item : i.order_id = o.id}

RECURSIVE LineTotal(_)
LineTotal(items) ==
    IF items = {} THEN 0
    ELSE LET i == CHOOSE x \in items : TRUE
         IN  i.price * i.quantity + LineTotal(items \ {i})

RequestCart == CartItems(request.cart_data)

CheckoutMustFail(req) ==
    \/ req.cart_data.kind = "malformed"
    \/ \E i \in 1..Len(CartItems(req.cart_data)) : ~ItemKeysOk(CartItems(req.cart_data)[i])
    \/ DOMAIN req.form # CustomerFields

CheckoutPersistedAll ==
    LET cart == CartItems(request'.cart_data)
        added == db'.order_item \ db.order_item
    IN  /\ response'.to = "checkout_success"
        /\ \E o \in db'.order \ db.order :
              /\ db'.order = db.order \cup {o}
              /\ db.order_item \subseteq db'.order_item
              /\ Cardinality(added) = Len(cart)
              /\ \A i \in added : i.order_id = o.id
              /\ \A k \in 1..Len(cart) :
                    \E i \in added : /\ i.product_id = cart[k]["id"]
                                     /\ i.quantity = cart[k]["quantity"]
                                     /\ i.price = cart[k]["price"]
        /\ \A t \in Tables \ {"order", "order_item"} : db'[t] = db[t]

CheckoutPersistedNothing ==
    /\ response'.status = "render"
    /\ db' = db

\* C1: every POST /checkout either persists the Order row and one OrderItem
\* row per cart entry, or persists nothing and leaves the store as it was;
\* malformed cart JSON, a cart entry without id, quantity or price, and a
\* missing customer field all end the second way.
C1_CheckoutAtomic ==
    [][request'.op = "checkout" =>
          /\ CheckoutPersistedAll \/ CheckoutPersistedNothing
          /\ CheckoutMustFail(request') => CheckoutPersistedNothing]_vars

\* A checkout failed at commit (second entry with a null id, after the order
\* row and the first item row were flushed) in a store that holds an order.
C1_Witness ==
    /\ request.op = "checkout"
    /\ response.to = "checkout.html:exception"
    /\ request.cart_data.kind = "json"
    /\ Len(RequestCart) = 2
    /\ \A i \in 1..2 : ItemKeysOk(RequestCart[i])
    /\ RequestCart[1]["id"] # NoneInt
    /\ RequestCart[2]["id"] = NoneInt
    /\ DOMAIN request.form = CustomerFields
    /\ db.order # {}

\* C2: in every reachable state the total_price of every order is the sum of
\* price * quantity over its order items (the values the client sent).
C2_TotalIsSumOfItems ==
    \A o \in db.order : o.total_price = LineTotal(ItemsOfOrder(db, o))

\* Two orders exist, one of two items, and the price of an ordered product
\* has just been changed.
C2_Witness ==
    /\ request.op = "update_product"
    /\ response.to = "200"
    /\ Cardinality(db.order) = 2
    /\ \E o \in db.order : Cardinality(ItemsOfOrder(db, o)) = 2 /\ o.total_price = 10
    /\ \E p \in db.product : p.price = 20 /\ OrderItemsOf(db, p) # {}

CheckoutWithEmptyCart(req) ==
    req.op = "checkout" /\ CartParses(req.cart_data) /\ CartItems(req.cart_data) = <<>>

\* C3: a checkout POST whose cart is empty or absent is answered with the
\* error page and changes nothing; every order owns at least one order item.
C3_EmptyCartRejected ==
    /\ [](\A o \in db.order : ItemsOfOrder(db, o) # {})
    /\ [][CheckoutWithEmptyCart(request') =>
             response'.to = "checkout.html:empty" /\ db' = db]_vars

\* An empty cart was just rejected, after an order had been placed.
C3_Witness ==
    /\ CheckoutWithEmptyCart(request)
    /\ request.cart_data.kind = "json"
    /\ response.to = "checkout.html:empty"
    /\ db.order # {}

GatedOps == {"add_product_admin", "update_product", "delete_product",
             "delete_product_admin", "add_category", "delete_category",
             "dashboard", "manage_categories"}

\* a request entering its handler (for add_category, the step that starts it)
Entering(req) ==
    /\ req.op \in GatedOps
    /\ req.op = "add_category" => inflight[req.worker] = Idle

\* C4: every admin operation checks the session flag first, so a request
\* made in a session without the flag leaves products and categories
\* unchanged (it is answered with the redirect to login).
C4_AdminOpsGated ==
    [][(Entering(request') /\ ~LoggedIn) =>
          /\ db'.product = db.product
          /\ db'.category = db.category]_vars

\* C5: the flag is set only by a login POST with admin / 1234 and cleared
\* only by logout; logout clears it; GET /admin/dashboard renders the page
\* exactly when the flag is set and redirects to login otherwise.
C5_LoginLogout ==
    [][/\ (~LoggedIn /\ is_admin_logged_in(session')) =>
              /\ request'.op = "login"
              /\ request'.username = "admin"
              /\ request'.password = "1234"
       /\ (request'.op = "login" /\ request'.username = "admin"
              /\ request'.password = "1234") => is_admin_logged_in(session')
       /\ (LoggedIn /\ ~is_admin_logged_in(session')) => request'.op = "logout"
       /\ request'.op = "logout" => ~is_admin_logged_in(session')
       /\ request'.op = "dashboard" =>
              response' = IF LoggedIn THEN [status |-> "render", to |-> "admin.html"]
                                      ELSE [status |-> "redirect", to |-> "login"]]_vars

\* The dashboard was rendered for a session that logged in as admin.
C5_Witness ==
    /\ request.op = "dashboard"
    /\ response.to = "admin.html"
    /\ LoggedIn
    /\ session["admin_username"] = "admin"

\* C6: deleting an existing category removes it together with every product
\* of the category and every review and order item of those products.
C6_CategoryDeleteCascades ==
    [][(request'.op = "delete_category" /\ LoggedIn
            /\ QueryGet(db.category, request'.category_id) # {}) =>
          /\ QueryGet(db'.category, request'.category_id) = {}
          /\ \A p \in db.product : p.category_id = request'.category_id =>
                /\ p \notin db'.product
                /\ \A r \in db'.review : r.product_id # p.id
                /\ \A i \in db'.order_item : i.product_id # p.id
          /\ \A p \in db'.product : p.category_id # request'.category_id]_vars

RatingOutOfRange(req) ==
    /\ req.op = "add_review"
    /\ "rating" \in DOMAIN req.data
    /\ req.data["rating"].kind = "number"
    /\ (req.data["rating"].tenths < 10 \/ req.data["rating"].tenths > 50)

\* C7: a review request whose rating is outside 1..5 is rejected and
\* persists no review, and every persisted review has a rating from 1 to 5.
C7_RatingInRange ==
    /\ [](\A r \in db.review : 1 <= r.rating /\ r.rating <= 5)
    /\ [][RatingOutOfRange(request') => response'.to # "201" /\ db' = db]_vars

ReviewedProductMissing(req) ==
    /\ req.op = "add_review"
    /\ ~ProductFound(db, Get(req.data, "product_id", NoneInt))

ProductDeleted(req) ==
    /\ req.op \in {"delete_product", "delete_product_admin"}
    /\ QueryGet(db.product, req.product_id) # {}
    /\ QueryGet(db'.product, req.product_id) = {}

AddingExistingName(req) ==
    /\ req.op = "add_category"
    /\ CategoryByName(db, req.name) # {}

\* C9: no two categories have the same name; an add_category request whose
\* name exists, at its check or at its commit after another request has
\* committed the same name, is answered with an error page and adds no row.
C9_CategoryNamesUnique ==
    /\ [](\A a, b \in db.category : a.name = b.name => a = b)
    /\ [][AddingExistingName(request') =>
             /\ db' = db
             /\ response'.to \in {"login", "admin-categories.html:exists",
                                  "admin-categories.html:exception"}]_vars

\* Two requests for one name passed the check; the second commit was
\* refused by the UNIQUE constraint.
C9_Witness ==
    /\ request.op = "add_category"
    /\ response.to = "admin-categories.html:exception"
    /\ Cardinality(CategoryByName(db, request.name)) = 1

UpdateFrame(req) ==
    LET before == QueryGet(db.product, req.product_id)
        after == QueryGet(db'.product, req.product_id)
    IN  /\ \A t \in Tables \ {"product"} : db'[t] = db[t]
        /\ session' = session
        /\ {q \in db'.product : q.id # req.product_id}
              = {q \in db.product : q.id # req.product_id}
        /\ IF before = {}
           THEN response'.to = "404" /\ db' = db
           ELSE /\ Cardinality(after) = 1
                /\ \A p \in before, q \in after :
                      /\ \A c \in DOMAIN p \ DOMAIN req.data : q[c] = p[c]
                      /\ response'.to = "200" =>
                            \A c \in DOMAIN req.data \cap UpdatableFields : q[c] = req.data[c]
                      /\ response'.to # "200" => q = p

\* C10: PUT /api/products/<id> gives the fields present in the body their
\* new values and leaves every absent field of that product and every other
\* product, category, review and order as it was; for an id that does not
\* exist it answers 404 and changes nothing.  (A body the database refuses,
\* such as a null name, is answered 400 and changes nothing.)
C10_UpdateFrame ==
    [][request'.op = "update_product" => UpdateFrame(request')]_vars

\* Only the price of product 1 was sent and changed, with a second product,
\* a review and an order in the store.
C10_Witness ==
    /\ request.op = "update_product"
    /\ request.data = [price |-> 20]
    /\ response.to = "200"
    /\ \E p \in db.product : /\ p.id = request.product_id
                             /\ p.price = 20
                             /\ p.name = "Headphones"
                             /\ p.discount = 15
    /\ Cardinality(db.product) = 2
    /\ db.review # {}
    /\ db.order # {}

\* The admin delete request just made names an id that is not in the store.
DeleteOfMissingId(req) ==
    \/ /\ req.op = "delete_product_admin"
       /\ QueryGet(db.product, req.product_id) = {}
    \/ /\ req.op = "delete_category"
       /\ QueryGet(db.category, req.category_id) = {}

\* C11: for the logged-in admin, delete_product_admin and delete_category on
\* an id that is not in the store (never there, or already deleted) answer
\* with their normal redirect and leave the whole store unchanged.
C11_DeleteMissingIsNoOp ==
    [][(LoggedIn /\ DeleteOfMissingId(request')) =>
          /\ db' = db
          /\ response' = [status |-> "redirect",
                          to |-> IF request'.op = "delete_category"
                                 THEN "manage_categories" ELSE "dashboard"]]_vars

\* The admin deleted a product id that no product ever had, from a store
\* that holds a product and a category, and was sent to the dashboard.
C11_Witness ==
    /\ request.op = "delete_product_admin"
    /\ request.product_id = MaxProductId + 1
    /\ LoggedIn
    /\ response = [status |-> "redirect", to |-> "dashboard"]
    /\ db.product # {}
    /\ db.category # {}

\* C12: every stored order has status "pending": checkout creates it so and
\* no request changes it afterwards.
C12_OrdersStayPending ==
    /\ [](\A o \in db.order : o.status = "pending")
    /\ [][\A o \in db.order : \A o2 \in db'.order :
               o2.id = o.id => o2.status = o.status]_vars

\* Two orders are stored and a later request (a product update that went
\* through) has run since the last checkout.
C12_Witness ==
    /\ Cardinality(db.order) = MaxOrderId
    /\ request.op = "update_product"
    /\ response.to = "200"

\* C13: every stored order item has quantity >= 1, whatever cart the client
\* submitted.
C13_QuantityAtLeastOne ==
    \A i \in db.order_item : i.quantity >= 1

\* C14: every stored product has price >= 0, whichever request created or
\* last updated it.
C14_PriceNotNegative ==
    \A p \in db.product : p.price >= 0

\* C15: every stored order item refers to a product that is in the store,
\* after any sequence of checkouts and product and category deletes.
C15_OrderItemsHaveProduct ==
    \A i \in db.order_item : ProductFound(db, i.product_id)

====
